---- MODULE Spec2Model ----
(***************************************************************************)
(* A model of the terminal browser in src/main.py: the half-block image   *)
(* rasterizer (image_to_terminal_art), the document mapper (Parser), the   *)
(* output compositor (Renderer and the element classes) and the history    *)
(* bookkeeping of Browser.                                                  *)
(***************************************************************************)
EXTENDS Integers, Sequences, FiniteSets, TLC

VARIABLES
    \* ---- image_to_terminal_art --------------------------------------
    image_source,            \* [ok, w, h]: whether it decodes, and its size
    max_width,               \* the max_width argument
    resize_rejects_empty,    \* whether Image.resize raises on a 0-sized target
    rpc,                     \* "call" | "printed" | "open_error" | "raised"
    target_height_chars,     \* the local of that name (0 before it is set)
    resized_width_pixels,    \* the width handed to img.resize
    resized_height_pixels,   \* the height handed to img.resize
    output_lines,            \* len(output_lines) when the art is printed
    \* ---- Parser and Renderer -----------------------------------------
    soup,                    \* the parsed markup tree handed to Parser.parse
    fetch,                   \* what fetching and drawing the image source does
    dpc,                     \* "markup" | "parsed" | "rendered"
    elements,                \* the element sequence Parser.parse returns
    page_title,              \* the title Parser.parse returns
    stdout,                  \* the fragments written to the terminal, in order
    stderr,                  \* the messages written to standard error, in order
    \* ---- Browser -----------------------------------------------------
    history,                 \* Browser.history
    current_url,             \* Browser.current_url (NoUrl is None)
    bpc,                     \* "new" | "running" | "quit": where start() is
    last_call,               \* the method the command loop called last, and its argument
    page,                    \* the markup _load_content chose last
    loaded_url,              \* the url _load_content was called with last
    load_count               \* how many times _load_content has been called

rasterVars == << image_source, max_width, resize_rejects_empty, rpc,
                 target_height_chars, resized_width_pixels,
                 resized_height_pixels, output_lines >>

docVars == << soup, fetch, dpc, elements, page_title, stdout, stderr >>

browserVars == << history, current_url, bpc, last_call, page, loaded_url, load_count >>

vars == << rasterVars, docVars, browserVars >>

-----------------------------------------------------------------------------
(* Bounds *)

MaxDim == 6          \* image sides 1..MaxDim (plus the sides the scenarios name)
MaxWidthArg == 6     \* max_width 1..MaxWidthArg (plus the default)

(* Program constants *)

DefaultMaxWidth == 80

ImageSides == (1..MaxDim) \cup {50, 100}
WidthArgs == (1..MaxWidthArg) \cup {DefaultMaxWidth}

-----------------------------------------------------------------------------
(* image_to_terminal_art, src/main.py:16-46.                               *)
(*                                                                         *)
(* char_aspect_ratio is the default 0.5, so line 24 is                     *)
(* int((H / W) * max_width * 0.5).  int() truncates, and every operand is  *)
(* positive, so the value is the floor of H*max_width / (2*W).  The source *)
(* computes it in IEEE doubles; for every operand the model draws (sides   *)
(* up to 12, 50 and 100, widths up to 12 and 80) the double result         *)
(* truncates to the same integer as the exact quotient, so \div is exact   *)
(* here.  The same holds for lines 28 and 32.                              *)

\* line 24 with the halving left out
TargetHeightRawNoAspect(w, h, mw) == (h * mw) \div w

\* line 24
TargetHeightRaw(w, h, mw) == (h * mw) \div (2 * w)

Max(a, b) == IF a >= b THEN a ELSE b

\* line 25: max(1, t + (t % 2))
EnsureEven(t) == Max(1, t + (t % 2))

\* line 28: int(original_width * (resized_height_pixels / original_height))
WidthForHeight(w, h, rhp) == (w * rhp) \div h

\* line 32: int(original_height * (resized_width_pixels / original_width))
HeightForWidth(w, h, rwp) == (h * rwp) \div w

\* lines 27-33: the size handed to resize, as [w, h]
ResizeTarget(w, h, mw) ==
    LET thc == EnsureEven(TargetHeightRaw(w, h, mw))
        rhp == thc * 2
        rwp == WidthForHeight(w, h, rhp)
    IN  IF rwp > mw
          THEN LET rhp2 == HeightForWidth(w, h, mw)
               IN  [w |-> mw, h |-> rhp2 + (rhp2 % 2), bound |-> TRUE]
          ELSE [w |-> rwp, h |-> rhp, bound |-> FALSE]

\* lines 39-45: one line per y in range(0, resized_height_pixels, 2)
LineCount(rhp) == (rhp + 1) \div 2

\* The whole call.  An undecodable source is reported on stderr and the call
\* returns (lines 17-21).  A resize to an empty size either raises or yields
\* an empty image, depending on the imaging library.
image_to_terminal_art ==
    /\ rpc = "call"
    /\ IF ~image_source.ok
         THEN /\ rpc' = "open_error"
              /\ UNCHANGED << target_height_chars, resized_width_pixels,
                              resized_height_pixels, output_lines >>
         ELSE LET w == image_source.w
                  h == image_source.h
                  size == ResizeTarget(w, h, max_width)
              IN  /\ target_height_chars' = EnsureEven(TargetHeightRaw(w, h, max_width))
                  /\ resized_width_pixels' = size.w
                  /\ resized_height_pixels' = size.h
                  /\ IF resize_rejects_empty /\ (size.w = 0 \/ size.h = 0)
                       THEN /\ rpc' = "raised"
                            /\ output_lines' = 0
                       ELSE /\ rpc' = "printed"
                            /\ output_lines' = LineCount(size.h)
    /\ UNCHANGED << image_source, max_width, resize_rejects_empty, docVars, browserVars >>

Undecodable == [ok |-> FALSE, w |-> 0, h |-> 0]


-----------------------------------------------------------------------------
(* Text.  A string is a sequence of one-character strings, so that strip,  *)
(* lower and the substring tests of the source are computed, not assumed.  *)

IsSpace(c) == c \in {" ", "\n", "\t"}

\* str.lower(), on the letters the texts of the model use
LowerChar(c) ==
    CASE c = "E" -> "e" [] c = "N" -> "n" [] c = "D" -> "d"
      [] c = "I" -> "i" [] c = "F" -> "f" [] c = "H" -> "h"
      [] c = "T" -> "t" [] OTHER -> c

Lower(s) == [i \in 1..Len(s) |-> LowerChar(s[i])]

\* str.strip()
Strip(s) ==
    LET keep == {i \in 1..Len(s) : ~IsSpace(s[i])}
    IN  IF keep = {} THEN <<>>
        ELSE LET lo == CHOOSE i \in keep : \A j \in keep : i <= j
                 hi == CHOOSE i \in keep : \A j \in keep : i >= j
             IN  SubSeq(s, lo, hi)

\* sub in s
Contains(s, sub) ==
    \E i \in 0..(Len(s) - Len(sub)) : SubSeq(s, i + 1, i + Len(sub)) = sub

-----------------------------------------------------------------------------
(* The markup tree BeautifulSoup(html, 'html.parser') builds.  A node is a *)
(* tag (the tree itself is the tag "[document]") or a string: plain text,  *)
(* a comment or a doctype.  Comment and Doctype are subclasses of          *)
(* NavigableString, which is a subclass of str.  html.parser gives tag     *)
(* names in lower case, so the .lower() calls of the source change nothing.*)

NoAttr == "(absent)"     \* the attribute is not in tag.attrs

Node(kind, name, text, href, src, kids) ==
    [kind |-> kind, name |-> name, text |-> text, href |-> href, src |-> src,
     kids |-> kids]

NavigableString(t) == Node("text", "", t, NoAttr, NoAttr, <<>>)
Comment(t) == Node("comment", "", t, NoAttr, NoAttr, <<>>)
Doctype(t) == Node("doctype", "", t, NoAttr, NoAttr, <<>>)
Tag(name, kids) == Node("tag", name, <<>>, NoAttr, NoAttr, kids)
ATag(href, kids) == Node("tag", "a", <<>>, href, NoAttr, kids)
ImgTag(src) == Node("tag", "img", <<>>, NoAttr, src, <<>>)
BeautifulSoup(kids) == Tag("[document]", kids)
NoNode == Node("none", "", <<>>, NoAttr, NoAttr, <<>>)

IsStr(n) == n.kind \in {"text", "comment", "doctype"}     \* isinstance(n, str)

\* The class of a string node: the tree builder makes the strings of a
\* script or style tag Script or Stylesheet objects.
StringClass(n, parent_name) ==
    CASE n.kind = "comment" -> "Comment"
      [] n.kind = "doctype" -> "Doctype"
      [] n.kind = "text" /\ parent_name = "script" -> "Script"
      [] n.kind = "text" /\ parent_name = "style" -> "Stylesheet"
      [] OTHER -> "NavigableString"

\* The string class get_text collects when called on a tag of this name.
InterestingStringType(name) ==
    CASE name = "script" -> "Script"
      [] name = "style" -> "Stylesheet"
      [] OTHER -> "NavigableString"

RECURSIVE StrippedStrings(_, _, _)
\* The stripped, non-empty strings of class cls below tag, from child i on,
\* joined with no separator.
StrippedStrings(tag, cls, i) ==
    IF i > Len(tag.kids) THEN <<>>
    ELSE LET k == tag.kids[i]
             here == IF k.kind = "tag" THEN StrippedStrings(k, cls, 1)
                     ELSE IF StringClass(k, tag.name) = cls THEN Strip(k.text)
                     ELSE <<>>
         IN  here \o StrippedStrings(tag, cls, i + 1)

\* tag.get_text(strip=True)
GetText(tag) == StrippedStrings(tag, InterestingStringType(tag.name), 1)

RECURSIVE FindFrom(_, _, _)
\* tag.find(name): the first tag of that name below tag, in document order
FindFrom(tag, name, i) ==
    IF i > Len(tag.kids) THEN NoNode
    ELSE LET k == tag.kids[i]
             below == IF k.kind # "tag" THEN NoNode
                      ELSE IF k.name = name THEN k
                      ELSE FindFrom(k, name, 1)
         IN  IF below # NoNode THEN below ELSE FindFrom(tag, name, i + 1)

Find(tag, name) == FindFrom(tag, name, 1)

-----------------------------------------------------------------------------
(* The element classes, src/main.py:58-125, as records of one shape.       *)

Element(type, text, href, level, parts, items) ==
    [type |-> type, text |-> text, href |-> href, level |-> level,
     parts |-> parts, items |-> items]

TextNode(text) == Element("Text", text, NoAttr, 0, <<>>, <<>>)
Anchor(text, href) == Element("Link", text, href, 0, <<>>, <<>>)
Paragraph(content_parts) == Element("Paragraph", <<>>, NoAttr, 0, content_parts, <<>>)
Heading(text, level) == Element("Heading", text, NoAttr, level, <<>>, <<>>)
ListElement(items_content_parts) ==
    Element("List", <<>>, NoAttr, 0, <<>>, items_content_parts)
Button(label) == Element("Button", label, NoAttr, 0, <<>>, <<>>)
ImageElement(src) == Element("Image", <<>>, src, 0, <<>>, <<>>)

-----------------------------------------------------------------------------
(* Parser, src/main.py:127-183.                                            *)

\* line 166 with the two .lower() calls lost
IsNoiseCaseSensitive(text) ==
    \/ Contains(text, <<"e", "n", "d", "i", "f">>)
    \/ Contains(text, <<"[", "i", "f">>)
    \/ Contains(text, <<"<", "!">>)

\* line 166: the conditional-markup noise test on a stripped raw text
IsNoise(text) ==
    \/ Contains(Lower(text), <<"e", "n", "d", "i", "f">>)
    \/ Contains(Lower(text), <<"[", "i", "f">>)
    \/ Contains(text, <<"<", "!">>)

\* lines 162-182: what one child of a p or li contributes
InlineOf(content_node) ==
    IF content_node.kind \in {"comment", "doctype"} THEN <<>>
    ELSE IF content_node.kind = "text"
      THEN LET text == Strip(content_node.text)
           IN  IF text # <<>> /\ ~IsNoise(text) THEN << TextNode(text) >> ELSE <<>>
    ELSE IF content_node.name \in {"script", "style", "noscript"} THEN <<>>
    ELSE IF content_node.name = "a"
      THEN LET text == GetText(content_node)
           IN  IF text # <<>>
                 THEN << Anchor(text, IF content_node.href = NoAttr THEN "#"
                                      ELSE content_node.href) >>
                 ELSE <<>>
    ELSE IF content_node.name = "img"
      THEN IF content_node.src # NoAttr THEN << ImageElement(content_node.src) >>
           ELSE <<>>
    ELSE LET text == GetText(content_node)
         IN  IF text # <<>> THEN << TextNode(text) >> ELSE <<>>

RECURSIVE InlineFrom(_, _)
InlineFrom(parent_tag, i) ==
    IF i > Len(parent_tag.kids) THEN <<>>
    ELSE InlineOf(parent_tag.kids[i]) \o InlineFrom(parent_tag, i + 1)

\* Parser._parse_inline_content, lines 159-183
ParseInlineContent(parent_tag) == InlineFrom(parent_tag, 1)

\* tag.find_all('li', recursive=False), mapped through _parse_inline_content
ListItems(tag) ==
    LET lis == SelectSeq(tag.kids, LAMBDA k : k.kind = "tag" /\ k.name = "li")
    IN  [i \in 1..Len(lis) |-> ParseInlineContent(lis[i])]

\* lines 134-135: the str branch, which Comment and Doctype nodes take too
ParseString(tag) ==
    IF Strip(tag.text) # <<>> THEN << TextNode(Strip(tag.text)) >> ELSE <<>>

HeadingLevel(tag_name) ==
    CASE tag_name = "h1" -> 1 [] tag_name = "h2" -> 2 [] tag_name = "h3" -> 3

\* line 157 without the test for empty text
ContainerResultUnguarded(tag, found) ==
    IF found # <<>> THEN found ELSE << TextNode(GetText(tag)) >>

\* line 157: the children's elements, or else the tag's own text, or else nothing
ContainerResult(tag, found) ==
    IF found # <<>> THEN found
    ELSE IF GetText(tag) # <<>> THEN << TextNode(GetText(tag)) >>
    ELSE <<>>

RECURSIVE ParseElements(_)
RECURSIVE ParseChildren(_, _)

\* lines 154-156: the elements of the children from child i on
ParseChildren(tag, i) ==
    IF i > Len(tag.kids) THEN <<>>
    ELSE ParseElements(tag.kids[i]) \o ParseChildren(tag, i + 1)

\* Parser._parse_elements, lines 133-157
ParseElements(tag) ==
    IF IsStr(tag) THEN ParseString(tag)
    ELSE IF tag.name \in {"style", "script", "noscript"} THEN <<>>
    ELSE IF tag.name \in {"h1", "h2", "h3"}
      THEN << Heading(GetText(tag), HeadingLevel(tag.name)) >>
    ELSE IF tag.name = "p" THEN << Paragraph(ParseInlineContent(tag)) >>
    ELSE IF tag.name = "ul" THEN << ListElement(ListItems(tag)) >>
    ELSE IF tag.name = "a"
      THEN IF GetText(tag) # <<>>
             THEN << Anchor(GetText(tag), IF tag.href = NoAttr THEN "#" ELSE tag.href) >>
             ELSE <<>>
    ELSE IF tag.name = "button" THEN << Button(GetText(tag)) >>
    ELSE IF tag.name = "img"
      THEN IF tag.src # NoAttr THEN << ImageElement(tag.src) >> ELSE <<>>
    ELSE ContainerResult(tag, ParseChildren(tag, 1))

NoTitle == <<"N", "o", " ", "T", "i", "t", "l", "e">>

\* line 130
PageTitle(tree) ==
    IF Find(tree, "title") # NoNode THEN GetText(Find(tree, "title")) ELSE NoTitle

\* line 131: soup.find('html') or soup
ParseRoot(tree) == IF Find(tree, "html") # NoNode THEN Find(tree, "html") ELSE tree


-----------------------------------------------------------------------------
(* Rendering, src/main.py:58-125 and 185-200.  A render() call returns a   *)
(* string and may print on the way; both are kept as sequences of          *)
(* fragments, each tagged with the place in the document it comes from:    *)
(* <<i, j, k>> is part k of item j of element i (j = 1 in a paragraph, and *)
(* <<i, 0, 0>> is element i itself).                                       *)

Fragment(kind, at, text) == [kind |-> kind, at |-> at, text |-> text]

Rendered(ret, out, err) == [ret |-> ret, out |-> out, err |-> err]

\* What can happen to one image: the fetch succeeds and the art is drawn;
\* requests.get or raise_for_status raises; Image.open raises inside
\* image_to_terminal_art; img.resize raises inside image_to_terminal_art.
FetchOutcomes == {"drawn", "fetch_error", "undecodable", "resize_error"}

\* ImageElement.render, lines 111-125 (base_url is never set, so image_url = src)
ImageRender(e, at, outcome) ==
    CASE outcome = "drawn" ->
           \* lines 121-123: the art, then the caption, are printed; "" is returned
           Rendered(<<>>, << Fragment("art", at, <<>>), Fragment("caption", at, <<>>) >>, <<>>)
      [] outcome = "undecodable" ->
           \* lines 19-21 report on stderr and return; lines 122-123 go on
           Rendered(<<>>, << Fragment("caption", at, <<>>) >>,
                    << Fragment("open_error", at, <<>>) >>)
      [] OTHER ->
           \* lines 124-125: the error string is returned, nothing is printed
           Rendered(<< Fragment("error", at, <<>>) >>, <<>>, <<>>)

\* render() of an element with no parts: TextNode, Anchor, Heading, Button, ImageElement
LeafRender(e, at, outcome) ==
    CASE e.type = "Text" -> Rendered(<< Fragment("text", at, e.text) >>, <<>>, <<>>)
      [] e.type = "Link" -> Rendered(<< Fragment("link", at, e.text) >>, <<>>, <<>>)
      [] e.type = "Heading" -> Rendered(<< Fragment("heading", at, e.text) >>, <<>>, <<>>)
      [] e.type = "Button" -> Rendered(<< Fragment("button", at, e.text) >>, <<>>, <<>>)
      [] e.type = "Image" -> ImageRender(e, at, outcome)

RECURSIVE PartsRender(_, _, _, _, _)
\* "".join(part.render() for part in parts), from part k on: the parts are
\* rendered in order, each printing what it prints as it is reached
PartsRender(parts, i, j, k, outcome) ==
    IF k > Len(parts) THEN Rendered(<<>>, <<>>, <<>>)
    ELSE LET first == LeafRender(parts[k], <<i, j, k>>, outcome)
             rest == PartsRender(parts, i, j, k + 1, outcome)
         IN  Rendered(first.ret \o rest.ret, first.out \o rest.out,
                      first.err \o rest.err)

RECURSIVE ItemsRender(_, _, _, _)
\* ListElement.render, lines 89-91, from item j on
ItemsRender(items, i, j, outcome) ==
    IF j > Len(items) THEN Rendered(<<>>, <<>>, <<>>)
    ELSE LET first == PartsRender(items[j], i, j, 1, outcome)
             rest == ItemsRender(items, i, j + 1, outcome)
         IN  Rendered(<< Fragment("bullet", <<i, j, 0>>, <<>>) >> \o first.ret
                        \o << Fragment("newline", <<i, j, 0>>, <<>>) >> \o rest.ret,
                      first.out \o rest.out, first.err \o rest.err)

\* element.render() for element i of the document
ElementRender(e, i, outcome) ==
    CASE e.type = "Paragraph" ->
           LET r == PartsRender(e.parts, i, 1, 1, outcome)
           IN  Rendered(r.ret \o << Fragment("newline", <<i, 1, 0>>, <<>>) >>, r.out, r.err)
      [] e.type = "List" ->
           LET r == ItemsRender(e.items, i, 1, outcome)
           IN  IF e.items = <<>>
                 THEN Rendered(<< Fragment("newline", <<i, 0, 0>>, <<>>) >>, <<>>, <<>>)
                 ELSE r
      [] OTHER -> LeafRender(e, <<i, 0, 0>>, outcome)

\* lines 193-196: what rendering element i writes to the terminal; the
\* string an ImageElement returns is dropped (line 194)
WrittenBy(e, i, outcome) ==
    LET r == ElementRender(e, i, outcome)
    IN  IF e.type = "Image" THEN r.out ELSE r.out \o r.ret

RECURSIVE RenderFrom(_, _, _)
\* the loop of Renderer.render, lines 192-196, from element i on
RenderFrom(elems, i, outcome) ==
    IF i > Len(elems) THEN [out |-> <<>>, err |-> <<>>]
    ELSE LET rest == RenderFrom(elems, i + 1, outcome)
         IN  [out |-> WrittenBy(elems[i], i, outcome) \o rest.out,
              err |-> ElementRender(elems[i], i, outcome).err \o rest.err]

\* lines 190-191
Banner(title) ==
    IF title # <<>> THEN << Fragment("banner", <<0, 0, 0>>, title) >> ELSE <<>>

-----------------------------------------------------------------------------
(* The markup trees of the model.                                          *)

MaxInline == 2       \* at most this many children in a tag of the pool

T_Hi == <<"H", "i", " ">>
T_there == <<"t", "h", "e", "r", "e">>
T_T == <<"T">>
T_Blank == <<" ", "\n">>
T_Cond == <<"<", "!", "-", "-", "[", "i", "f", " ", "I", "E", "]", ">", "h", "i",
            "<", "!", "[", "e", "n", "d", "i", "f", "]", "-", "-", ">">>
T_EndifUpper == <<"x", " ", "E", "N", "D", "I", "F">>
T_IfUpper == <<"[", "I", "F">>
T_Bang == <<"a", "<", "!">>
T_Note == <<" ", "n", "o", "t", "e", " ">>
T_html == <<"h", "t", "m", "l">>
T_bold == <<"b", "o", "l", "d">>
T_js == <<"j", "s", "(", ")">>
T_css == <<"c", "s", "s">>
T_nojs == <<"n", "o", "j", "s">>

ImageSource == "a.png"

NodePool ==
    { NavigableString(T_Hi), NavigableString(T_Blank), NavigableString(T_Cond),
      NavigableString(T_EndifUpper), NavigableString(T_IfUpper),
      NavigableString(T_Bang), Comment(T_Note), Doctype(T_html),
      ATag("x", << NavigableString(T_there) >>), ATag(NoAttr, <<>>),
      ImgTag(ImageSource), ImgTag(NoAttr),
      Tag("b", << NavigableString(T_bold), Tag("noscript", << NavigableString(T_nojs) >>) >>),
      Tag("script", << NavigableString(T_js) >>),
      Tag("style", << NavigableString(T_css) >>),
      Tag("noscript", << NavigableString(T_nojs) >>),
      Tag("span", << Tag("script", << NavigableString(T_js) >>) >>) }

RECURSIVE SeqsUpTo(_, _)
SeqsUpTo(S, n) ==
    IF n = 0 THEN { <<>> }
    ELSE LET shorter == SeqsUpTo(S, n - 1)
         IN  shorter \cup { Append(q, x) : q \in shorter, x \in S }

ChildLists == SeqsUpTo(NodePool, MaxInline)

Blocks ==
    UNION { { Tag("p", ks), Tag("ul", << Tag("li", ks) >>), Tag("h2", ks),
              Tag("button", ks), Tag("div", ks), ATag("x", ks) } : ks \in ChildLists }

\* <title>T</title><p>Hi <a href="x">there</a></p>
ScenarioA ==
    BeautifulSoup(<< Tag("title", << NavigableString(T_T) >>),
                     Tag("p", << NavigableString(T_Hi),
                                 ATag("x", << NavigableString(T_there) >>) >>) >>)

Trees ==
    { BeautifulSoup(<< b >>) : b \in Blocks }
      \cup { BeautifulSoup(<< Doctype(T_html), Tag("html", << Tag("body", << b >>) >>) >>) :
               b \in { Tag("p", ks) : ks \in SeqsUpTo(NodePool, 1) } }
      \cup { BeautifulSoup(<< Tag("title", <<>>), Tag("ul", <<>>) >>), ScenarioA }

-----------------------------------------------------------------------------
(* Parser.parse and Renderer.refresh, as Browser._load_content calls them  *)
(* (src/main.py:244-245).                                                  *)

\* Parser.parse, lines 128-131
Parse ==
    /\ dpc = "markup"
    /\ elements' = ParseElements(ParseRoot(soup))
    /\ page_title' = PageTitle(soup)
    /\ dpc' = "parsed"
    /\ UNCHANGED << soup, fetch, stdout, stderr, rasterVars, browserVars >>

\* Renderer.refresh, lines 198-200: clear, then render
Refresh ==
    /\ dpc = "parsed"
    /\ \E outcome \in FetchOutcomes :
         LET r == RenderFrom(elements, 1, outcome)
         IN  /\ fetch' = outcome
             /\ stdout' = << Fragment("clear", <<0, 0, 0>>, <<>>) >>
                            \o Banner(page_title) \o r.out
             /\ stderr' = r.err
    /\ dpc' = "rendered"
    /\ UNCHANGED << soup, elements, page_title, rasterVars, browserVars >>

RasterIdle ==
    /\ image_source = Undecodable
    /\ max_width = DefaultMaxWidth
    /\ resize_rejects_empty = FALSE
    /\ rpc = "idle"
    /\ target_height_chars = 0
    /\ resized_width_pixels = 0
    /\ resized_height_pixels = 0
    /\ output_lines = 0

DocIdle ==
    /\ soup = BeautifulSoup(<<>>)
    /\ fetch = "none"
    /\ dpc = "idle"
    /\ elements = <<>>
    /\ page_title = <<>>
    /\ stdout = <<>>
    /\ stderr = <<>>


-----------------------------------------------------------------------------
(* Browser, src/main.py:202-273.  A url is kept as the pair of what        *)
(* url.startswith("search:") says and the rest of the string.              *)

MaxHistory == 3      \* navigate is not called with this many entries in history
MaxLoads == 5        \* _load_content is called at most this many times

Url(kind, text) == [kind |-> kind, text |-> text]
NoUrl == Url("none", "")
Home == Url("plain", "home")

GoArguments == { Home, Url("plain", "another_page"), Url("plain", "example.com"),
                 Url("search", "python") }
Queries == { "hello", "nothing" }
SearchDb == { "hello", "python", "example" }          \* the keys of search_db, lines 208-212

Call(op, arg) == [op |-> op, arg |-> arg]

\* lines 220-242: the markup chosen for url; a fetch over the network
\* either answers or raises
PageFor(url, answered) ==
    IF url = Home THEN "home"
    ELSE IF url = Url("plain", "another_page") THEN "another_page"
    ELSE IF url.kind = "search"
      THEN IF url.text \in SearchDb THEN "search_result" ELSE "no_results"
    ELSE IF answered THEN "fetched" ELSE "error_page"

\* Browser._load_content, lines 219-245
LoadContent(url) ==
    /\ load_count < MaxLoads
    /\ \E answered \in BOOLEAN : page' = PageFor(url, answered)
    /\ loaded_url' = url
    /\ load_count' = load_count + 1

\* go_back with the test of line 248 off by one
GoBackToEmpty ==
    IF Len(history) > 0
      THEN LET popped == SubSeq(history, 1, Len(history) - 1)
           IN  /\ history' = popped
               /\ current_url' = IF popped = <<>> THEN NoUrl ELSE popped[Len(popped)]
               /\ LoadContent(current_url')
      ELSE UNCHANGED << history, current_url, page, loaded_url, load_count >>

\* Browser.navigate, lines 214-217
Navigate(url) ==
    /\ Len(history) < MaxHistory
    /\ current_url' = url
    /\ history' = Append(history, url)
    /\ LoadContent(url)

\* Browser.go_back, lines 247-253
GoBack ==
    IF Len(history) > 1
      THEN LET popped == SubSeq(history, 1, Len(history) - 1)
           IN  /\ history' = popped
               /\ current_url' = popped[Len(popped)]
               /\ LoadContent(current_url')
      ELSE UNCHANGED << history, current_url, page, loaded_url, load_count >>

\* Browser.start up to the first prompt, lines 266-267
Start ==
    /\ bpc = "new"
    /\ LoadContent(Home)
    /\ bpc' = "running"
    /\ last_call' = Call("start", NoUrl)
    /\ UNCHANGED << history, current_url, rasterVars, docVars >>

\* Browser.handle_input, lines 255-263, for one line read at line 269
HandleInput ==
    /\ bpc = "running"
    /\ \/ \E url \in GoArguments :            \* "go <url>"
            /\ Navigate(url)
            /\ last_call' = Call("navigate", url)
       \/ \E query \in Queries :              \* "search <query>"
            /\ Navigate(Url("search", query))
            /\ last_call' = Call("navigate", Url("search", query))
       \/ /\ GoBack                            \* "back"
          /\ last_call' = Call("go_back", NoUrl)
       \/ /\ last_call' = Call("unknown", NoUrl)
          /\ UNCHANGED << history, current_url, page, loaded_url, load_count >>
    /\ UNCHANGED << bpc, rasterVars, docVars >>

\* lines 270-272
Quit ==
    /\ bpc = "running"
    /\ bpc' = "quit"
    /\ last_call' = Call("quit", NoUrl)
    /\ UNCHANGED << history, current_url, page, loaded_url, load_count,
                    rasterVars, docVars >>

BrowserIdle ==
    /\ history = <<>>
    /\ current_url = NoUrl
    /\ bpc = "idle"
    /\ last_call = Call("none", NoUrl)
    /\ page = "none"
    /\ loaded_url = NoUrl
    /\ load_count = 0

RasterInit ==
    /\ image_source \in {Undecodable} \cup [ok : {TRUE}, w : ImageSides, h : ImageSides]
    /\ max_width \in WidthArgs
    /\ resize_rejects_empty \in BOOLEAN
    /\ rpc = "call"
    /\ target_height_chars = 0
    /\ resized_width_pixels = 0
    /\ resized_height_pixels = 0
    /\ output_lines = 0
    /\ DocIdle
    /\ BrowserIdle

RasterNext == image_to_terminal_art

SpecRaster == RasterInit /\ [][RasterNext]_vars

DocInit ==
    /\ soup \in Trees
    /\ fetch = "none"
    /\ dpc = "markup"
    /\ elements = <<>>
    /\ page_title = <<>>
    /\ stdout = <<>>
    /\ stderr = <<>>
    /\ RasterIdle
    /\ BrowserIdle

DocNext == Parse \/ Refresh

SpecDoc == DocInit /\ [][DocNext]_vars

\* Browser.__init__, lines 203-207
BrowserInit ==
    /\ history = <<>>
    /\ current_url = NoUrl
    /\ bpc = "new"
    /\ last_call = Call("none", NoUrl)
    /\ page = "none"
    /\ loaded_url = NoUrl
    /\ load_count = 0
    /\ RasterIdle
    /\ DocIdle

BrowserNext == Start \/ HandleInput \/ Quit

SpecBrowser == BrowserInit /\ [][BrowserNext]_vars

-----------------------------------------------------------------------------
(* What the properties below speak of.                                     *)

RECURSIVE Nodes(_)
\* every node of the tree below and including n
Nodes(n) == {n} \cup UNION { Nodes(n.kids[i]) : i \in DOMAIN n.kids }

RECURSIVE HiddenTexts(_, _)
\* the stripped, non-empty raw texts that lie inside a style, script or
\* noscript subtree of n
HiddenTexts(n, inside) ==
    IF n.kind = "text"
      THEN IF inside /\ Strip(n.text) # <<>> THEN { Strip(n.text) } ELSE {}
    ELSE IF n.kind # "tag" THEN {}
    ELSE UNION { HiddenTexts(n.kids[i],
                             inside \/ n.name \in {"style", "script", "noscript"}) :
                 i \in DOMAIN n.kids }

\* the leaf elements of an element sequence, nested ones included
Leaves(elems) ==
    UNION { LET e == elems[i]
            IN  IF e.type = "Paragraph" THEN { e.parts[k] : k \in DOMAIN e.parts }
                ELSE IF e.type = "List"
                  THEN UNION { { e.items[j][k] : k \in DOMAIN e.items[j] } :
                               j \in DOMAIN e.items }
                ELSE { e } :
            i \in DOMAIN elems }

ElementTexts(elems) == { e.text : e \in { l \in Leaves(elems) : l.type # "Image" } }

\* where the Image elements of an element sequence are
ImagePlaces(elems) ==
    UNION { LET e == elems[i]
            IN  IF e.type = "Image" THEN { <<i, 0, 0>> }
                ELSE IF e.type = "Paragraph"
                  THEN { <<i, 1, k>> : k \in { k \in DOMAIN e.parts : e.parts[k].type = "Image" } }
                ELSE IF e.type = "List"
                  THEN UNION { { <<i, j, k>> :
                                 k \in { k \in DOMAIN e.items[j] : e.items[j][k].type = "Image" } } :
                               j \in DOMAIN e.items }
                ELSE {} :
            i \in DOMAIN elems }

\* a comes before b in the document
Before(a, b) ==
    \/ a[1] < b[1]
    \/ a[1] = b[1] /\ a[2] < b[2]
    \/ a[1] = b[1] /\ a[2] = b[2] /\ a[3] < b[3]

\* the fragments that carry an element's or an inline part's own output
IsContent(f) ==
    f.kind \in {"text", "link", "heading", "button", "art", "caption", "error"}

Parsed == dpc \in {"parsed", "rendered"}

-----------------------------------------------------------------------------
(* C1.  For every image of width and height >= 1 and every max_width >= 1, *)
(* the target character height is positive and even, and the pixel height *)
(* handed to resize is even, in the normal and in the width-bound branch.  *)
(* The code breaks this: a raw height of 0 becomes max(1, 0) = 1.          *)
C1_TargetHeightEven ==
    rpc \in {"printed", "raised"} =>
        /\ target_height_chars > 0
        /\ target_height_chars % 2 = 0
        /\ resized_height_pixels % 2 = 0

(* C6.  A 100x50 image with max_width 80 gets target character height 20  *)
(* and, as amended, 20 output lines: one per pair of the 40 pixel rows of  *)
(* the 80x40 resize.                                                       *)
C6_ScenarioE_Amended ==
    ( /\ rpc = "printed"
      /\ image_source = [ok |-> TRUE, w |-> 100, h |-> 50]
      /\ max_width = DefaultMaxWidth ) =>
        /\ target_height_chars = 20
        /\ resized_width_pixels = 80
        /\ resized_height_pixels = 40
        /\ output_lines = 20

\* C6 as stated: ... and emits 10 output lines
C6_ScenarioE_Stated ==
    ( /\ rpc = "printed"
      /\ image_source = [ok |-> TRUE, w |-> 100, h |-> 50]
      /\ max_width = DefaultMaxWidth ) =>
        /\ target_height_chars = 20
        /\ output_lines = 10

C6_Witness ==
    /\ rpc = "printed"
    /\ image_source = [ok |-> TRUE, w |-> 100, h |-> 50]
    /\ max_width = DefaultMaxWidth
    /\ output_lines = 20

(* C2.  _parse_elements of a comment or doctype node is empty, so no       *)
(* element of the mapped output carries a comment's or doctype's text.     *)
(* The code breaks this: both are str, and the str branch comes first.     *)
C2_CommentsSuppressed ==
    Parsed =>
        /\ \A n \in { m \in Nodes(soup) : m.kind \in {"comment", "doctype"} } :
             Strip(n.text) \notin ElementTexts(elements)
        /\ \A i \in DOMAIN ParseRoot(soup).kids :
             ParseRoot(soup).kids[i].kind \in {"comment", "doctype"} =>
                 ParseElements(ParseRoot(soup).kids[i]) = <<>>

(* C3.  No text from inside a style, script or noscript subtree appears in *)
(* the text of any element Parser.parse produces.  The code breaks this    *)
(* for noscript, whose text get_text still collects.                       *)
C3_HiddenTextAbsent ==
    Parsed =>
        \A hidden \in HiddenTexts(soup, FALSE) :
            \A shown \in ElementTexts(elements) : ~Contains(shown, hidden)

(* C4.  Scenario A: <title>T</title><p>Hi <a href="x">there</a></p> maps   *)
(* to the title "T" and to exactly one element, a Paragraph of Text("Hi")  *)
(* and Link("there", "x").  The code also maps the title tag to a Text.    *)
C4_ScenarioA ==
    (Parsed /\ soup = ScenarioA) =>
        /\ page_title = T_T
        /\ elements = << Paragraph(<< TextNode(<<"H", "i">>), Anchor(T_there, "x") >>) >>

(* C5.  When rendering an Image fails, the terminal shows an error marker  *)
(* at the image's place, top-level or nested, and every later element is   *)
(* still rendered.  The code drops the marker of a top-level image.        *)
C5_ImageFailureMarked ==
    (dpc = "rendered" /\ fetch \in {"fetch_error", "undecodable", "resize_error"}) =>
        \A place \in ImagePlaces(elements) :
            /\ \/ \E n \in DOMAIN stdout : stdout[n].kind = "error" /\ stdout[n].at = place
               \/ \E n \in DOMAIN stderr : stderr[n].at = place
            /\ \A i \in DOMAIN elements :
                 (i > place[1] /\ elements[i].type # "Image") =>
                     \E n \in DOMAIN stdout : stdout[n].at[1] = i

(* C9.  In one render pass the terminal output is in document order: the   *)
(* output of an element or inline part follows that of everything before   *)
(* it in the document.  The code prints a nested image's art and caption   *)
(* before the text of its own paragraph or list.                           *)
C9_OutputInDocumentOrder ==
    dpc = "rendered" =>
        \A a, b \in DOMAIN stdout :
            (a < b /\ IsContent(stdout[a]) /\ IsContent(stdout[b])) =>
                ~Before(stdout[b].at, stdout[a].at)

\* a tag with no visible text and no element-producing children
IsBarren(n) ==
    /\ n.kind = "tag"
    /\ GetText(n) = <<>>
    /\ \A i \in DOMAIN n.kids : ParseElements(n.kids[i]) = <<>>

(* C7.  As amended: a tag other than p, ul, h1-h3, button and img that has *)
(* no visible text and no element-producing children maps to the empty     *)
(* sequence (no empty Text, Link or Container); a p, ul, h1-h3 or button   *)
(* in that state still maps to exactly one, empty, Paragraph, List,        *)
(* Heading or Button, and an img with a src to its Image.                  *)
C7_BarrenTags_Amended ==
    Parsed =>
        \A n \in { m \in Nodes(soup) : IsBarren(m) } :
            CASE n.name = "p" -> ParseElements(n) = << Paragraph(<<>>) >>
              [] n.name = "ul" ->
                   /\ Len(ParseElements(n)) = 1
                   /\ ParseElements(n)[1].type = "List"
                   /\ \A j \in DOMAIN ParseElements(n)[1].items :
                        ParseElements(n)[1].items[j] = <<>>
              [] n.name \in {"h1", "h2", "h3"} ->
                   ParseElements(n) = << Heading(<<>>, HeadingLevel(n.name)) >>
              [] n.name = "button" -> ParseElements(n) = << Button(<<>>) >>
              [] n.name = "img" ->
                   ParseElements(n) = IF n.src = NoAttr THEN <<>> ELSE << ImageElement(n.src) >>
              [] OTHER -> ParseElements(n) = <<>>

\* C7 as stated: every such tag, of any kind, maps to the empty sequence
C7_BarrenTags_Stated ==
    Parsed =>
        \A n \in { m \in Nodes(soup) : IsBarren(m) /\ m.name # "img" } :
            ParseElements(n) = <<>>

C7_Witness ==
    /\ dpc = "parsed"
    /\ soup = BeautifulSoup(<< Tag("div", << NavigableString(T_Blank),
                                           Tag("span", << Tag("script", << NavigableString(T_js) >>) >>) >>) >>)
    /\ IsBarren(soup.kids[1])
    /\ elements = <<>>

\* the letters of a and b agree up to case
SameIgnoringCase(a, b) ==
    /\ Len(a) = Len(b)
    /\ \A i \in DOMAIN a : a[i] = b[i] \/ LowerChar(a[i]) = b[i] \/ a[i] = LowerChar(b[i])

\* word occurs in text in some letter case
OccursInAnyCase(text, word) ==
    \E i \in 0..(Len(text) - Len(word)) :
        SameIgnoringCase(SubSeq(text, i + 1, i + Len(word)), word)

\* what the claim lets one child of a p or li contribute: a raw text by the
\* rule of the claim, any other child as the mapper has it
ClaimedInline(k) ==
    IF k.kind = "text"
      THEN IF \/ Strip(k.text) = <<>>
              \/ OccursInAnyCase(Strip(k.text), <<"e", "n", "d", "i", "f">>)
              \/ OccursInAnyCase(Strip(k.text), <<"[", "i", "f">>)
              \/ Contains(Strip(k.text), <<"<", "!">>)
             THEN <<>>
             ELSE << TextNode(Strip(k.text)) >>
      ELSE InlineOf(k)

RECURSIVE ClaimedInlineFrom(_, _)
ClaimedInlineFrom(kids, i) ==
    IF i > Len(kids) THEN <<>>
    ELSE ClaimedInline(kids[i]) \o ClaimedInlineFrom(kids, i + 1)

(* C8.  In the inline content of a p or li, a raw text child whose trimmed *)
(* text is empty, or holds "endif" or "[if" in any letter case, or holds   *)
(* "<!", contributes nothing; every other raw text child contributes one   *)
(* Text of its trimmed text, in child order.  The raw text                 *)
(* "<!--[if IE]>hi<![endif]-->" in a paragraph is suppressed.              *)
C8_InlineNoiseFilter ==
    Parsed =>
        /\ \A n \in { m \in Nodes(soup) : m.kind = "tag" /\ m.name \in {"p", "li"} } :
             ParseInlineContent(n) = ClaimedInlineFrom(n.kids, 1)
        /\ (Len(soup.kids) = 1 /\ soup.kids[1].name = "p") =>
             elements = << Paragraph(ClaimedInlineFrom(soup.kids[1].kids, 1)) >>
        /\ (Len(soup.kids) = 1 /\ soup.kids[1].name = "ul") =>
             elements = << ListElement(<< ClaimedInlineFrom(soup.kids[1].kids[1].kids, 1) >>) >>
        /\ (soup = BeautifulSoup(<< Tag("p", << NavigableString(T_Cond) >>) >>)) =>
             elements = << Paragraph(<<>>) >>

C8_Witness ==
    /\ dpc = "parsed"
    /\ soup = BeautifulSoup(<< Tag("p", << NavigableString(T_Cond), NavigableString(T_Hi) >>) >>)
    /\ elements = << Paragraph(<< TextNode(<<"H", "i">>) >>) >>

(* C10.  Whenever history is non-empty, current_url is its last entry;     *)
(* navigate(url) appends exactly one entry and loads url; go_back with at  *)
(* least two entries removes the last one and loads the new last one;      *)
(* go_back with fewer than two changes nothing and loads nothing; so a     *)
(* non-empty history never becomes empty.                                  *)
C10_History ==
    /\ [](history # <<>> => current_url = history[Len(history)])
    /\ [][ /\ last_call'.op = "navigate" =>
                /\ history' = Append(history, last_call'.arg)
                /\ current_url' = last_call'.arg
                /\ loaded_url' = last_call'.arg
                /\ load_count' = load_count + 1
           /\ (last_call'.op = "go_back" /\ Len(history) >= 2) =>
                /\ history' = SubSeq(history, 1, Len(history) - 1)
                /\ loaded_url' = history[Len(history) - 1]
                /\ load_count' = load_count + 1
           /\ (last_call'.op = "go_back" /\ Len(history) < 2) =>
                UNCHANGED << history, current_url, page, loaded_url, load_count >>
           /\ history # <<>> => history' # <<>>
         ]_vars

C10_Witness ==
    /\ last_call.op = "go_back"
    /\ history = << Home >>
    /\ current_url = Home
    /\ loaded_url = Home
    /\ load_count = 4

====
